---- MODULE Spec2Model ----
(***************************************************************************)
(* Model of main_script.py, the multilingual oral board exam trainer.      *)
(*                                                                         *)
(* Text is modelled as a sequence of tokens; the token " " is the only     *)
(* whitespace, every other token is a word.  str.strip() removes leading   *)
(* and trailing " " tokens, f"{a} {b}" is a \o <<" ">> \o b.               *)
(*                                                                         *)
(* A step of the session is one widget event together with the script run  *)
(* (and the rerun after st.rerun()) it triggers.  The widget keys carry    *)
(* question_set_id, so ans and audio hold the values under the current id  *)
(* and are fresh after every increment.  The label translations made       *)
(* through bilingual_text_ui do not touch the session state and are not    *)
(* part of the runs; the translator functions are modelled on their own    *)
(* in SpecTr.  Sessions upload one document whose text extraction          *)
(* succeeds.                                                               *)
(***************************************************************************)
EXTENDS Integers, Sequences, FiniteSets, TLC

\* ------------------------------------------------------------------ bounds
MaxCache == 1
MaxGraded == 2
MaxItems == 2
MaxSets == 2
MaxAnsLen == 5

\* ----------------------------------------------------------- text helpers
\* outcomes of a call to an external service
Raised == [kind |-> "raise", text |-> <<>>]
NoResult == [kind |-> "none", text |-> <<>>]
Returned(t) == [kind |-> "text", text |-> t]

RECURSIVE LStrip(_)
LStrip(s) == IF s = <<>> THEN <<>>
             ELSE IF Head(s) = " " THEN LStrip(Tail(s)) ELSE s

RECURSIVE RStrip(_)
RStrip(s) == IF s = <<>> THEN <<>>
             ELSE IF s[Len(s)] = " " THEN RStrip(SubSeq(s, 1, Len(s) - 1)) ELSE s

\* str.strip()
Strip(s) == RStrip(LStrip(s))

\* `not text or not text.strip()`
IsBlank(s) == s = <<>> \/ Strip(s) = <<>>

Occurs(w, s) == \E k \in 1..Len(s) : s[k] = w

\* ------------------------------------------------------------ translators
english_words == {"the", "and", "identify", "make", "open"}

_looks_english(text) == Cardinality({w \in english_words : Occurs(w, text)}) >= 2

\* language_map restricted to three of its entries
LanguageNames == {"English", "French", "Ukrainian"}
language_map(name) == CASE name = "English" -> "en"
                        [] name = "French" -> "fr"
                        [] name = "Ukrainian" -> "uk"

\* A returned value is either a plain text or the pair (text, flag).
PlainText(t) == [kind |-> "text", text |-> t, uk |-> FALSE]
TextPair(t, u) == [kind |-> "pair", text |-> t, uk |-> u]

NoHostedFirst_ui_translate(text, name, hosted, llm) ==
    IF IsBlank(text) THEN [value |-> PlainText(text), calls |-> <<>>]
    ELSE IF language_map(name) = "en" THEN [value |-> PlainText(text), calls |-> <<>>]
    ELSE IF llm.kind = "text" THEN [value |-> PlainText(Strip(llm.text)), calls |-> <<"llm">>]
    ELSE IF hosted.kind = "text"
         THEN [value |-> PlainText(hosted.text), calls |-> <<"llm", "hosted">>]
    ELSE [value |-> PlainText(text), calls |-> <<"llm", "hosted">>]

NoEnglishSkip_ui_translate(text, name, hosted, llm) ==
    IF IsBlank(text) THEN [value |-> PlainText(text), calls |-> <<>>]
    ELSE IF hosted.kind = "text"
         THEN [value |-> PlainText(hosted.text), calls |-> <<"hosted">>]
    ELSE IF llm.kind = "text"
         THEN [value |-> PlainText(Strip(llm.text)), calls |-> <<"hosted", "llm">>]
    ELSE [value |-> PlainText(text), calls |-> <<"hosted", "llm">>]

\* ui_translate: hosted service first, then the LLM, then the input.
\* hosted is Raised, NoResult (translate returned None) or Returned(.text);
\* llm is Raised or Returned(content of the completion).
ui_translate(text, name, hosted, llm) ==
    IF IsBlank(text) THEN [value |-> PlainText(text), calls |-> <<>>]
    ELSE IF language_map(name) = "en" THEN [value |-> PlainText(text), calls |-> <<>>]
    ELSE IF hosted.kind = "text"
         THEN [value |-> PlainText(hosted.text), calls |-> <<"hosted">>]
    ELSE IF llm.kind = "text"
         THEN [value |-> PlainText(Strip(llm.text)), calls |-> <<"hosted", "llm">>]
    ELSE [value |-> PlainText(text), calls |-> <<"hosted", "llm">>]

EmptyFallback_safe_translate_body(text, name, hosted, llm) ==
    IF IsBlank(text) THEN [value |-> PlainText(text), calls |-> <<>>]
    ELSE IF language_map(name) = "en" THEN [value |-> PlainText(text), calls |-> <<>>]
    ELSE IF llm.kind = "text" /\ ~_looks_english(Strip(llm.text))
         THEN [value |-> TextPair(Strip(llm.text), language_map(name) = "uk"),
               calls |-> <<"llm">>]
    ELSE IF hosted.kind = "text"
         THEN [value |-> PlainText(hosted.text), calls |-> <<"llm", "hosted">>]
    ELSE [value |-> PlainText(<<>>), calls |-> <<"llm", "hosted">>]

\* The body of safe_translate (what runs on a cache miss): LLM prompt first,
\* then the hosted service, then the input.
safe_translate_body(text, name, hosted, llm) ==
    IF IsBlank(text) THEN [value |-> PlainText(text), calls |-> <<>>]
    ELSE IF language_map(name) = "en" THEN [value |-> PlainText(text), calls |-> <<>>]
    ELSE IF llm.kind = "text" /\ ~_looks_english(Strip(llm.text))
         THEN [value |-> TextPair(Strip(llm.text), language_map(name) = "uk"),
               calls |-> <<"llm">>]
    ELSE IF hosted.kind = "raise"
         THEN [value |-> PlainText(text), calls |-> <<"llm", "hosted">>]
    ELSE IF hosted.kind = "none"
         THEN [value |-> PlainText(text), calls |-> <<"llm", "hosted">>]
    ELSE [value |-> PlainText(hosted.text), calls |-> <<"llm", "hosted">>]

\* ------------------------------------------------------ sequence helpers
Min(a, b) == IF a <= b THEN a ELSE b

\* [x] * n
Repeat(x, n) == [k \in 1..n |-> x]

\* --------------------------------------------------- question generation
\* An item of the generation response: question and answer_key, <<>> when
\* the key is missing or its value is the empty string.
Item(q, k) == [question |-> q, answer_key |-> k]

\* `if item.get("question") and item.get("answer_key")`
ItemKept(item) == item.question # <<>> /\ item.answer_key # <<>>

\* all_questions: the items that pass the filter, each field stripped; the
\* requested count num_questions does not enter the computation.
Normalize(all_items, num_questions) ==
    LET kept == SelectSeq(all_items, ItemKept) IN
    [k \in 1..Len(kept) |-> Item(Strip(kept[k].question), Strip(kept[k].answer_key))]

\* One entry of the batch translation response; an entry without the two
\* keys (or the {} of the except branch) reads as <<>> through .get(key, "").
Translation(q, k) == [question_translated |-> q, answer_key_translated |-> k]
EmptyTranslation == Translation(<<>>, <<>>)

Question(q, t) == [question_en |-> q.question, answer_key_en |-> q.answer_key,
                   question_translated |-> t.question_translated,
                   answer_key_translated |-> t.answer_key_translated]

\* bilingual_questions.  trans is Raised or [kind |-> "list", items |-> ...].
\* For English no translation is requested; otherwise the result is
\* zip(all_questions, translations), as long as the shorter of the two.
bilingual_questions(all_questions, name, trans) ==
    IF name = "English"
    THEN [k \in 1..Len(all_questions) |-> Question(all_questions[k], EmptyTranslation)]
    ELSE LET translations == IF trans.kind = "list" THEN trans.items
                             ELSE Repeat(EmptyTranslation, Len(all_questions))
         IN [k \in 1..Min(Len(all_questions), Len(translations)) |->
                Question(all_questions[k], translations[k])]

\* -------------------------------------------------------- answer section
NoAudio == "None"
NoHash == <<>>

\* hashlib.sha256(audio_bytes).hexdigest(): distinct recordings of the model
\* have distinct digests.
sha256(audio_bytes) == <<"sha256", audio_bytes>>

\* f"{existing_text} {dictated_text}" if existing_text else dictated_text
Joined(existing_text, dictated_text) ==
    IF existing_text # <<>> THEN existing_text \o <<" ">> \o dictated_text
    ELSE dictated_text

\* One iteration of the loop over the questions: a is the value of the key
\* ans_{qid}_{i}, audio_data the value of the audio widget, lh the value of
\* last_audio_hash_{i}, out the outcome of the transcription call if made.
AnswerStep(a, audio_data, lh, out) ==
    LET called == audio_data # NoAudio /\ lh # sha256(audio_data)
        dictated_text == IF called /\ out.kind = "text" THEN Strip(out.text) ELSE <<>>
        appended == dictated_text # <<>>
        a1 == IF appended THEN Joined(Strip(a), dictated_text) ELSE a
        a2 == Joined(Strip(a1), dictated_text)
    IN [ans |-> a2,
        last_hash |-> IF appended THEN sha256(audio_data) ELSE lh,
        called |-> called,
        appended |-> appended,
        dictated |-> dictated_text,
        error |-> called /\ out.kind = "raise"]

\* ------------------------------------------------------------------ state
VARIABLES
    cache,              \* st.cache_data store of safe_translate: records keyed by (text, name)
    tr,                 \* the last translator call: function, arguments, outcomes, result
    lang,               \* target_language_name, the value of the language selectbox
    pdf_text,           \* st.session_state["pdf_text"], <<>> while nothing is extracted
    questions,          \* st.session_state["questions"]
    user_answers,       \* st.session_state["user_answers"]
    evaluations,        \* st.session_state["evaluations"]
    all_question_sets,  \* st.session_state["all_question_sets"], each set by its number of questions
    question_set_id,    \* st.session_state["question_set_id"]
    ans,                \* slot i |-> value of the key ans_{question_set_id}_{i}
    audio,              \* slot i |-> value of the widget audio_input_{question_set_id}_{i}
    last_hash,          \* slot i |-> st.session_state["last_audio_hash_{i}"]
    processed,          \* slot i |-> digests whose transcription was appended for the current set
    run                 \* what the last script run did; raised: the unhandled error that ended it

trvars == <<cache, tr>>
sessionvars == <<lang, pdf_text, questions, user_answers, evaluations, all_question_sets,
                 question_set_id, ans, audio, last_hash, processed, run>>
vars == <<cache, tr, lang, pdf_text, questions, user_answers, evaluations, all_question_sets,
          question_set_id, ans, audio, last_hash, processed, run>>

Slots == 1..MaxItems
Recordings == {"recA", "recB"}

\* inputs of the translator calls
TrTexts == {<<>>, <<" ">>, <<"le">>, <<"the", "and">>}
HostedOutcomes == {Raised, NoResult, Returned(<<>>), Returned(<<"la">>)}
LlmOutcomes == {Raised, Returned(<<>>), Returned(<<"la", " ">>), Returned(<<"the", " ", "and">>)}

CacheKeys == {<<c.text, c.name>> : c \in cache}
CacheValue(text, name) == (CHOOSE c \in cache : c.text = text /\ c.name = name).value

NoRun == [event |-> "none", slot |-> 0, num_questions |-> 0, gen_failed |-> FALSE,
          aborted |-> FALSE, valid |-> 0, grading_failed |-> FALSE,
          called |-> {}, errors |-> {}, dictated |-> [i \in Slots |-> <<>>],
          raised |-> "none"]

InitTr ==
    /\ cache = {}
    /\ tr = [fn |-> "none", text |-> <<>>, name |-> "English", hosted |-> Raised,
             llm |-> Raised, value |-> PlainText(<<>>), calls |-> <<>>, hit |-> FALSE]

\* the session state initialisation at the top of the script
InitSession ==
    /\ lang = "English"
    /\ pdf_text = <<>>
    /\ questions = <<>>
    /\ user_answers = <<>>
    /\ evaluations = <<>>
    /\ all_question_sets = <<>>
    /\ question_set_id = 0
    /\ ans = [i \in Slots |-> <<>>]
    /\ audio = [i \in Slots |-> NoAudio]
    /\ last_hash = [i \in Slots |-> NoHash]
    /\ processed = [i \in Slots |-> {}]
    /\ run = NoRun

Init == InitTr /\ InitSession

\* @st.cache_data around safe_translate: a call with a key already stored
\* returns the stored value and does not run the body.
safe_translate(text, name, hosted, llm) ==
    IF <<text, name>> \in CacheKeys
    THEN [value |-> CacheValue(text, name), calls |-> <<>>, hit |-> TRUE]
    ELSE [value |-> safe_translate_body(text, name, hosted, llm).value,
          calls |-> safe_translate_body(text, name, hosted, llm).calls,
          hit |-> FALSE]

CallSafeTranslate ==
    \E text \in TrTexts, name \in LanguageNames, hosted \in HostedOutcomes, llm \in LlmOutcomes :
        LET r == safe_translate(text, name, hosted, llm) IN
        /\ <<text, name>> \in CacheKeys \/ Cardinality(cache) < MaxCache
        /\ tr' = [fn |-> "safe_translate", text |-> text, name |-> name, hosted |-> hosted,
                  llm |-> llm, value |-> r.value, calls |-> r.calls, hit |-> r.hit]
        /\ cache' = IF r.hit THEN cache
                    ELSE cache \cup {[text |-> text, name |-> name, value |-> r.value]}
        /\ UNCHANGED sessionvars

CallUiTranslate ==
    \E text \in TrTexts, name \in LanguageNames, hosted \in HostedOutcomes, llm \in LlmOutcomes :
        LET r == ui_translate(text, name, hosted, llm) IN
        /\ tr' = [fn |-> "ui_translate", text |-> text, name |-> name, hosted |-> hosted,
                  llm |-> llm, value |-> r.value, calls |-> r.calls, hit |-> FALSE]
        /\ UNCHANGED <<cache, sessionvars>>

\* ----------------------------------------------------------- script runs
\* inputs of the session events
PdfTexts == {<<"doc">>}
GoodItem == Item(<<"q">>, <<"k">>)
OddItems == {Item(<<" ">>, <<"k">>), Item(<<"q", " ">>, <<" ">>), Item(<<>>, <<"k">>)}
\* lists of well-formed items with at most one odd item among them
ItemLists == {Repeat(GoodItem, n) : n \in 0..MaxItems} \cup
             {[Repeat(GoodItem, n) EXCEPT ![k] = odd] :
                 n \in 1..MaxItems, k \in 1..MaxItems, odd \in OddItems}
TranslationLists == {Repeat(t, n) : t \in {EmptyTranslation, Translation(<<"Q">>, <<"K">>)},
                                   n \in 0..MaxItems}
AsList(items) == [kind |-> "list", text |-> <<>>, items |-> items]
Other == [kind |-> "other", text |-> <<>>]
TypedTexts == {<<>>, <<"x">>}
TranscriptionOutcomes == {Raised, Returned(<<" ">>), Returned(<<"a">>), Returned(<<"b">>)}
GradedItems == {[score |-> sc, feedback |-> <<"fb">>, model_answer |-> <<"ma">>] : sc \in {0, 7}}
GradedLists == {Repeat(g, n) : g \in GradedItems, n \in 0..MaxItems}
GradedTexts == {<<"fb">>, <<"ma">>}
GradeHosted == {Raised, Returned(<<"la">>)}
GradeLlm == {Raised, Returned(<<"la">>)}

\* the transcription outcomes of a run: one per slot whose recording the
\* run sends to the transcription service
OutsFor(qs, au, lh) ==
    {o \in [Slots -> TranscriptionOutcomes] :
        \A i \in Slots :
            ~(i <= Len(qs) /\ au[i] # NoAudio /\ lh[i] # sha256(au[i])) => o[i] = Raised}

Fresh(v) == [i \in Slots |-> v]

\* The block under `if st.session_state["questions"]:` up to the text areas:
\* the user_answers length repair and the loop over the questions.
AnswerSection(qs, ua, a, au, lh, outs) ==
    LET n == Len(qs)
        step == [i \in 1..n |-> AnswerStep(a[i], au[i], lh[i], outs[i])]
        shown == 1..n
    IN [user_answers |-> IF n = 0 THEN ua ELSE [i \in 1..n |-> step[i].ans],
        ans |-> [i \in Slots |-> IF i \in shown THEN step[i].ans ELSE a[i]],
        last_hash |-> [i \in Slots |-> IF i \in shown THEN step[i].last_hash ELSE lh[i]],
        called |-> {i \in shown : step[i].called},
        errors |-> {i \in shown : step[i].error},
        appended |-> {i \in shown : step[i].appended},
        dictated |-> [i \in Slots |-> IF i \in shown THEN step[i].dictated ELSE <<>>]]

\* The rest of a script run from the answer section on, with the values the
\* run has at that point.  The block under `if st.session_state["questions"]:`
\* ends by reading the name uk_used, which is bound only inside
\* bilingual_text: a run that enters the block ends there with a NameError,
\* after all its writes to the session state.
Finish(ev, qs, ua, a, au, lh, pr, outs) ==
    \E r \in {AnswerSection(qs, ua, a, au, lh, outs)} :
    /\ \A i \in Slots : Len(r.ans[i]) <= MaxAnsLen
    /\ questions' = qs
    /\ user_answers' = r.user_answers
    /\ ans' = r.ans
    /\ audio' = au
    /\ last_hash' = r.last_hash
    /\ processed' = [i \in Slots |-> IF i \in r.appended THEN pr[i] \cup {sha256(au[i])}
                                     ELSE pr[i]]
    /\ run' = [ev EXCEPT !.called = r.called, !.errors = r.errors, !.dictated = r.dictated,
                         !.raised = IF qs # <<>> THEN "NameError" ELSE "none"]

ClearsOnFailure_GenerateRun(ev, qs, ua, lh, num_questions, gen, trans) ==
    \E all_questions \in {IF gen.kind = "list" THEN Normalize(gen.items, num_questions)
                          ELSE <<>>} :
    \E bq \in {bilingual_questions(all_questions, lang, trans)} :
    LET aborted == all_questions # <<>> /\ lang # "English" /\ trans.kind = "other"
        e == [ev EXCEPT !.num_questions = num_questions, !.gen_failed = gen.kind # "list",
                        !.aborted = aborted, !.valid = Len(all_questions)]
    IN
    /\ question_set_id' = question_set_id + 1
    /\ IF aborted
       THEN \* t.get(...) on a non-dict entry raises outside any try: the run ends here
            /\ questions' = qs
            /\ user_answers' = ua
            /\ ans' = Fresh(<<>>)
            /\ audio' = Fresh(NoAudio)
            /\ last_hash' = lh
            /\ processed' = Fresh({})
            /\ run' = [e EXCEPT !.raised = "AttributeError"]
            /\ UNCHANGED all_question_sets
       ELSE IF all_questions # <<>>
       THEN /\ all_question_sets' = Append(all_question_sets, Len(bq))
            /\ Finish(e, bq, Repeat(<<>>, Len(bq)), Fresh(<<>>), Fresh(NoAudio), lh,
                      Fresh({}), Fresh(Raised))
       ELSE /\ UNCHANGED all_question_sets
            /\ Finish(e, <<>>, <<>>, Fresh(<<>>), Fresh(NoAudio), lh,
                      Fresh({}), Fresh(Raised))

\* A script run that finds generate_now set: question generation, batch
\* translation, saving, then the answer section.  The widget keys of the
\* new question_set_id are fresh.  qs, ua and lh are the values at the
\* start of the run.
GenerateRun(ev, qs, ua, lh, num_questions, gen, trans) ==
    \E all_questions \in {IF gen.kind = "list" THEN Normalize(gen.items, num_questions)
                          ELSE <<>>} :
    \E bq \in {bilingual_questions(all_questions, lang, trans)} :
    LET aborted == all_questions # <<>> /\ lang # "English" /\ trans.kind = "other"
        e == [ev EXCEPT !.num_questions = num_questions, !.gen_failed = gen.kind # "list",
                        !.aborted = aborted, !.valid = Len(all_questions)]
    IN
    /\ question_set_id' = question_set_id + 1
    /\ IF aborted
       THEN \* t.get(...) on a non-dict entry raises outside any try: the run ends here
            /\ questions' = qs
            /\ user_answers' = ua
            /\ ans' = Fresh(<<>>)
            /\ audio' = Fresh(NoAudio)
            /\ last_hash' = lh
            /\ processed' = Fresh({})
            /\ run' = [e EXCEPT !.raised = "AttributeError"]
            /\ UNCHANGED all_question_sets
       ELSE IF all_questions # <<>>
       THEN /\ all_question_sets' = Append(all_question_sets, Len(bq))
            /\ Finish(e, bq, Repeat(<<>>, Len(bq)), Fresh(<<>>), Fresh(NoAudio), lh,
                      Fresh({}), Fresh(Raised))
       ELSE /\ UNCHANGED all_question_sets
            /\ Finish(e, qs, ua, Fresh(<<>>), Fresh(NoAudio), lh,
                      Fresh({}), Fresh(Raised))

Event(name, slot) == [NoRun EXCEPT !.event = name, !.slot = slot]

UploadPdf ==
    \E text \in PdfTexts, outs \in OutsFor(questions, audio, last_hash) :
        /\ pdf_text = <<>>
        /\ pdf_text' = text
        /\ Finish(Event("upload", 0), questions, user_answers, ans, audio, last_hash,
                  processed, outs)
        /\ UNCHANGED <<lang, evaluations, all_question_sets, question_set_id, trvars>>

SelectLanguage ==
    \E name \in LanguageNames \ {"Ukrainian"}, outs \in OutsFor(questions, audio, last_hash) :
        /\ name # lang
        /\ lang' = name
        /\ Finish(Event("language", 0), questions, user_answers, ans, audio, last_hash,
                  processed, outs)
        /\ UNCHANGED <<pdf_text, evaluations, all_question_sets, question_set_id, trvars>>

\* "Generate Questions": sets generate_now, increments question_set_id and
\* reruns; the rerun generates.
ClickGenerate(Responses, Translations) ==
    /\ pdf_text # <<>>
    /\ question_set_id < MaxSets
    /\ \E num_questions \in 1..MaxItems, gen \in Responses, trans \in Translations :
        /\ GenerateRun(Event("generate", 0), questions, user_answers, last_hash,
                       num_questions, gen, trans)
        /\ UNCHANGED <<lang, pdf_text, evaluations, trvars>>

NoClearAnswers_ClickNewSet(Responses, Translations) ==
    /\ questions # <<>>
    /\ question_set_id < MaxSets
    /\ \E outs \in OutsFor(questions, audio, last_hash) :
       \E r \in {AnswerSection(questions, user_answers, ans, audio, last_hash, outs)} :
       \E num_questions \in 1..MaxItems, gen \in Responses, trans \in Translations :
        /\ evaluations' = <<>>
        /\ GenerateRun(Event("new_set", 0), <<>>, r.user_answers, r.last_hash,
                       num_questions, gen, trans)
        /\ UNCHANGED <<lang, pdf_text, trvars>>

\* "Generate a New Set of Questions": the button is drawn after the answer
\* section of the run that sees the click; it clears the set and reruns.
ClickNewSet(Responses, Translations) ==
    /\ questions # <<>>
    /\ question_set_id < MaxSets
    /\ \E outs \in OutsFor(questions, audio, last_hash) :
       \E r \in {AnswerSection(questions, user_answers, ans, audio, last_hash, outs)} :
       \E num_questions \in 1..MaxItems, gen \in Responses, trans \in Translations :
        /\ evaluations' = <<>>
        /\ GenerateRun(Event("new_set", 0), <<>>, <<>>, r.last_hash,
                       num_questions, gen, trans)
        /\ UNCHANGED <<lang, pdf_text, trvars>>

TypeAnswer ==
    \E i \in Slots, text \in TypedTexts, outs \in OutsFor(questions, audio, last_hash) :
        /\ i <= Len(questions)
        /\ text # ans[i]
        /\ Finish(Event("type", i), questions, user_answers, [ans EXCEPT ![i] = text],
                  audio, last_hash, processed, outs)
        /\ UNCHANGED <<lang, pdf_text, evaluations, all_question_sets, question_set_id, cache, tr>>

RecordAudio ==
    \E i \in Slots, rec \in Recordings : \E outs \in OutsFor(questions, [audio EXCEPT ![i] = rec], last_hash) :
        /\ i <= Len(questions)
        /\ rec # audio[i]
        /\ Finish(Event("record", i), questions, user_answers, ans,
                  [audio EXCEPT ![i] = rec], last_hash, processed, outs)
        /\ UNCHANGED <<lang, pdf_text, evaluations, all_question_sets, question_set_id, cache, tr>>

\* any other rerun of the script: a re-render with the widgets as they are
Rerun ==
    \E outs \in OutsFor(questions, audio, last_hash) :
        /\ Finish(Event("rerun", 0), questions, user_answers, ans, audio, last_hash,
                  processed, outs)
        /\ UNCHANGED <<lang, pdf_text, evaluations, all_question_sets, question_set_id, cache, tr>>

\* score_short_answers: graded is Raised (the call raised, or its output is
\* not a JSON list of objects) or a list of results; each result gets the
\* two translated fields from safe_translate.  The questions and answers
\* only enter the prompt.  hosted and llm give the service outcomes per text.
score_short_answers(answers, qs, graded, hosted, llm) ==
    IF graded.kind = "list"
    THEN [k \in 1..Len(graded.items) |->
            [score |-> graded.items[k].score,
             feedback |-> graded.items[k].feedback,
             model_answer |-> graded.items[k].model_answer,
             feedback_translated |->
                safe_translate(graded.items[k].feedback, lang,
                               hosted[graded.items[k].feedback],
                               llm[graded.items[k].feedback]).value,
             model_answer_translated |->
                safe_translate(graded.items[k].model_answer, lang,
                               hosted[graded.items[k].model_answer],
                               llm[graded.items[k].model_answer]).value]]
    ELSE <<>>

\* the entries the safe_translate calls of one grading add to the cache
GradingCache(graded, hosted, llm) ==
    IF graded.kind # "list" THEN cache
    ELSE cache \cup
         {[text |-> t, name |-> lang, value |-> safe_translate(t, lang, hosted[t], llm[t]).value] :
            t \in {graded.items[k].feedback : k \in 1..Len(graded.items)}
                  \cup {graded.items[k].model_answer : k \in 1..Len(graded.items)}}

GradingResponses == {Raised} \cup {AsList(l) : l \in GradedLists}

\* "Evaluate My Answers": the run passes the answer section, then grades.
ClickEvaluate ==
    /\ questions # <<>>
    /\ \E outs \in OutsFor(questions, audio, last_hash) :
       \E r \in {AnswerSection(questions, user_answers, ans, audio, last_hash, outs)} :
       \E graded \in GradingResponses,
          hosted \in [GradedTexts -> GradeHosted], llm \in [GradedTexts -> GradeLlm] :
        /\ \/ (graded.kind = "list" /\ lang # "English" /\ graded.items # <<>>)
           \/ \A t \in GradedTexts : hosted[t] = Raised /\ llm[t] = Raised
        /\ Cardinality(GradingCache(graded, hosted, llm)) <= MaxGraded
        /\ cache' = GradingCache(graded, hosted, llm)
        /\ evaluations' = score_short_answers(r.user_answers, questions, graded, hosted, llm)
        /\ Finish([Event("evaluate", 0) EXCEPT !.grading_failed = graded.kind # "list"],
                  questions, user_answers, ans, audio, last_hash,
                  processed, outs)
        /\ UNCHANGED <<lang, pdf_text, all_question_sets, question_set_id, tr>>

AllResponses == {Raised} \cup {AsList(l) : l \in ItemLists}
AllTranslations == {Raised, Other} \cup {AsList(l) : l \in TranslationLists}

\* a response with k well-formed items
FewResponses == {Raised, AsList(<<GoodItem>>)}
FewTranslations == {Raised}

\* a session in English: generation, answer collection, grading
NextSession ==
    \/ UploadPdf
    \/ ClickGenerate(FewResponses, FewTranslations)
    \/ ClickNewSet(FewResponses, FewTranslations)
    \/ TypeAnswer
    \/ RecordAudio
    \/ Rerun
    \/ ClickEvaluate

\* question generation with every response of the services
NextGen ==
    \/ UploadPdf
    \/ SelectLanguage
    \/ ClickGenerate(AllResponses, AllTranslations)
    \/ ClickNewSet(AllResponses, AllTranslations)

\* grading
NextGrade ==
    \/ UploadPdf
    \/ SelectLanguage
    \/ ClickGenerate(FewResponses, FewTranslations)
    \/ ClickEvaluate

NextTr == CallSafeTranslate \/ CallUiTranslate

SpecTr == Init /\ [][NextTr]_vars

Spec == Init /\ [][NextSession]_vars

SpecGen == Init /\ [][NextGen]_vars

SpecGrade == Init /\ [][NextGrade]_vars

\* ------------------------------------------------------------ properties
MinScore == 0
ErrorFeedback == <<"Error during scoring">>

\* C1: the grader returns one result per (question, answer) pair it was
\* given, on success and on failure of the grading call.
C1_ResultsParallel ==
    run.event = "evaluate" => Len(evaluations) = Len(questions)

\* C2: when the grading call fails or its output is unparseable, each of the
\* n questions gets a result with the minimum score and the feedback
\* "Error during scoring".
C2_FailureFallback ==
    (run.event = "evaluate" /\ run.grading_failed) =>
        /\ Len(evaluations) = Len(questions)
        /\ \A k \in 1..Len(evaluations) :
              /\ evaluations[k].score = MinScore
              /\ evaluations[k].feedback = ErrorFeedback

\* C3: the question set stored by a generation has at most the requested
\* number of questions.
C3_AtMostRequested ==
    (run.event \in {"generate", "new_set"} /\ run.valid > 0 /\ ~run.aborted) =>
        Len(questions) <= run.num_questions

\* C4: every stored question has a non-empty question text and a non-empty
\* answer key.
C4_NonEmptyFields ==
    \A k \in 1..Len(questions) :
        questions[k].question_en # <<>> /\ questions[k].answer_key_en # <<>>

\* C5: a run that carries, for a question, a recording whose digest was
\* already processed for that question makes no transcription call for it
\* and leaves its stored answer as it was.
C5_Idempotent ==
    [][\A i \in Slots :
          (/\ run'.event \in {"record", "rerun"}
           /\ i <= Len(questions)
           /\ audio'[i] # NoAudio
           /\ sha256(audio'[i]) \in processed[i])
          => (/\ i \notin run'.called
              /\ ans'[i] = ans[i]
              /\ user_answers'[i] = user_answers[i])]_vars

\* C6: a recording with a non-empty transcription t extends the stored
\* answer a to "a t", and to t when a is empty, so that k recordings on an
\* empty answer leave t1 .. tk joined by single spaces.
C6_AppendedOnce ==
    [][\A i \in Slots :
          (run'.event = "record" /\ i \in run'.called /\ run'.dictated[i] # <<>>)
          => (/\ ans'[i] = Joined(Strip(ans[i]), run'.dictated[i])
              /\ user_answers'[i] = ans'[i])]_vars

\* C7: when the transcription call of a run raises for a question, the error
\* is reported and the text-area value and the user_answers entry of that
\* question are the values they had before the run.
C7_FailureKeepsAnswer ==
    [][\A i \in Slots :
          (run'.event \in {"record", "rerun"} /\ i \in run'.errors)
          => (ans'[i] = ans[i] /\ user_answers'[i] = user_answers[i])]_vars

HostedFailed == tr.hosted.kind \in {"raise", "none"}
LlmFailed == \/ tr.llm.kind = "raise"
             \/ tr.fn = "safe_translate" /\ _looks_english(Strip(tr.llm.text))
Translating == tr.fn # "none" /\ tr.name # "English" /\ ~IsBlank(tr.text) /\ ~tr.hit

\* C8: with English selected, safe_translate and ui_translate return the
\* input text and call neither the hosted service nor the LLM.
C8_EnglishPassthrough ==
    (tr.fn # "none" /\ tr.name = "English") =>
        (tr.value = PlainText(tr.text) /\ tr.calls = <<>>)

C8_Witness ==
    /\ tr.fn = "ui_translate" /\ tr.name = "English" /\ ~IsBlank(tr.text)
    /\ tr.hosted.kind = "text" /\ tr.hosted.text # tr.text
    /\ tr.value = PlainText(tr.text)

C11_TranslatedOnce ==
    [][(/\ tr.fn # "none" /\ tr'.fn = tr.fn
        /\ tr'.text = tr.text /\ tr'.name = tr.name
        /\ tr.calls # <<>>)
       => tr'.calls = <<>>]_vars

\* C12: at the end of every script run the stored list of user answers has
\* the same length as the stored list of questions.
C12_SameLength == Len(user_answers) = Len(questions)

C12_Witness ==
    /\ run.event = "new_set" /\ run.gen_failed
    /\ all_question_sets # <<>>
    /\ questions = <<>> /\ user_answers = <<>>

\* C13: when the generation call fails or its output cannot be parsed, the
\* generation step produces no questions and does not raise; the stored
\* question set (already emptied when the new-set button started the run)
\* and the history of question sets are as before, and the document stays
\* loaded, so that "Generate Questions" can be clicked again.
C13_FailureKeepsSet ==
    [][(run'.event \in {"generate", "new_set"} /\ run'.gen_failed)
       => (/\ run'.valid = 0
           /\ ~run'.aborted
           /\ questions' = IF run'.event = "generate" THEN questions ELSE <<>>
           /\ all_question_sets' = all_question_sets
           /\ pdf_text' # <<>>)]_vars

C13_Witness ==
    /\ run.event = "generate" /\ run.gen_failed
    /\ questions # <<>>
    /\ Len(all_question_sets) = 1

\* C14: after a successful grading call every result carries
\* feedback_translated and model_answer_translated, each of them a single
\* text value on every path of the translator.
C14_TranslatedIsText ==
    (run.event = "evaluate" /\ ~run.grading_failed) =>
        \A k \in 1..Len(evaluations) :
            /\ evaluations[k].feedback_translated.kind = "text"
            /\ evaluations[k].model_answer_translated.kind = "text"

\* C15: every script run in which a non-empty question set is stored runs
\* to the end of the script without an unhandled error.
C15_RunsToEnd ==
    (run.event # "none" /\ questions # <<>>) => run.raised = "none"

\* C16: for a non-English language the batch translation removes no
\* question: the run of a generation with valid items stores one question
\* per valid item, whatever the translation call returns.
C16_TranslationKeepsQuestions ==
    (run.event \in {"generate", "new_set"} /\ run.valid > 0 /\ lang # "English") =>
        /\ ~run.aborted
        /\ Len(questions) = run.valid

\* C17: when "Generate Questions" is clicked while a question set is stored
\* and the generation fails, each user_answers entry of the set, which is
\* still displayed, has the value it had before the click.
C17_FailedGenerateKeepsAnswers ==
    [][(run'.event = "generate" /\ run'.gen_failed /\ questions # <<>>)
       => user_answers' = user_answers]_vars

====
